---- MODULE Spec2Model ----
(***************************************************************************)
(* Seat allocation of NorwayElectionSimulator (old.app.py): the modified   *)
(* Sainte-Lague allocation with the 4% threshold, the percentage adapter   *)
(* and the step-by-step trace that streamlit_app rebuilds for display.     *)
(*                                                                         *)
(* A votes mapping is a sequence of weights: party k is the k-th key in    *)
(* the dict's iteration (insertion) order.  A dict over some of the        *)
(* parties is a function whose DOMAIN is its key set.                      *)
(*                                                                         *)
(* Python floats are modelled by exact integer arithmetic plus the one     *)
(* place where IEEE-754 rounding changes an order: the literal 1.4 is the  *)
(* double 1.4 - 0.4*2^-52, so w/1.4 can round one ulp above the exact      *)
(* value 5w/7 (21/1.4 = 15.000000000000002 > 45/3).  See Bump.             *)
(***************************************************************************)
EXTENDS Integers, Sequences, FiniteSets, TLC

\* ------------------------------------------------------------------ bounds
MaxParties == 3
MaxWeight == 3
MaxSeats == 4
MaxPct == 5
MaxUISeats == 4

\* weights that make exact quotient ties (7/1.4 = 15/3, 21/1.4 ~ 45/3) and
\* shares of exactly 4% (1 of 1+24, 1 of 1+3+21, 2 of 2+3+45)
TieWeights == {7, 15, 21, 24, 45}
\* weights tried by a direct call; -1 is an invalid (negative) weight
Weights == (-1..MaxWeight) \cup TieWeights
\* whole-number percentages entered in the UI; 25, 96 make sums reach 100
Pcts == (0..MaxPct) \cup {25, 96}
\* slider lower end for the number of seats
MinUISeats == 3
\* percentages are converted against this base
base_votes == 100000

VARIABLES votes, total_seats, pc, qualified_parties, seats, i, winner,
          all_seats, party_percentages, ui_qualified, seats_progress,
          seat_num, allocation_steps

vars == <<votes, total_seats, pc, qualified_parties, seats, i, winner,
          all_seats, party_percentages, ui_qualified, seats_progress,
          seat_num, allocation_steps>>

allocVars == <<qualified_parties, seats, i, winner, all_seats>>
uiVars == <<party_percentages, ui_qualified, seats_progress, seat_num,
            allocation_steps>>

NoParty == 0
EmptyDict == [k \in {} |-> 0]

\* ----------------------------------------------------------- arithmetic
RECURSIVE Pow2(_)
Pow2(k) == IF k <= 0 THEN 1 ELSE 2 * Pow2(k - 1)

Abs(x) == IF x < 0 THEN -x ELSE x

RECURSIVE SumTo(_, _)
SumTo(v, k) == IF k = 0 THEN 0 ELSE v[k] + SumTo(v, k - 1)

\* sum(votes.values())
TotalValidVotes(v) == SumTo(v, Len(v))

\* sum of a dict's values over its key set
RECURSIVE SumOver(_, _)
SumOver(f, S) ==
  IF S = {} THEN 0
  ELSE LET k == CHOOSE x \in S : TRUE IN f[k] + SumOver(f, S \ {k})

SumValues(f) == SumOver(f, DOMAIN f)

\* self.threshold = 0.04 as the fraction ThresholdNum / ThresholdDen
ThresholdNum == 4
ThresholdDen == 100

\* vote_count / total_valid_votes >= self.threshold, for total # 0.
\* (The double quotient compares with the double 0.04 as the exact
\* fractions do: at these magnitudes no share is within an ulp of 1/25.)
QualifiesStrict(w, total) ==
  IF total > 0 THEN ThresholdDen * w > ThresholdNum * total
  ELSE ThresholdDen * w < ThresholdNum * total

Qualifies(w, total) ==
  IF total > 0 THEN ThresholdDen * w >= ThresholdNum * total
  ELSE ThresholdDen * w <= ThresholdNum * total

\* keys of {party: .. for party in d.items() if cond}, in iteration order
RECURSIVE FilterKeys(_, _, _)
FilterKeys(v, total, k) ==
  IF k > Len(v) THEN <<>>
  ELSE (IF Qualifies(v[k], total) THEN <<k>> ELSE <<>>)
       \o FilterKeys(v, total, k + 1)

QualifiedKeys(v) == FilterKeys(v, TotalValidVotes(v), 1)

Range(s) == {s[k] : k \in DOMAIN s}

\* 5 * divisor: 1.4 for the first seat, then 2 * current_seats + 1
Divisor5(current_seats) ==
  IF current_seats = 0 THEN 7 ELSE 5 * (2 * current_seats + 1)

\* largest e >= start with den * 2^e <= num  (num >= den * 2^start)
RECURSIVE ExpUp(_, _, _)
ExpUp(num, den, e) ==
  IF num >= den * Pow2(e + 1) THEN ExpUp(num, den, e + 1) ELSE e

\* Rounding of the double division w / 1.4 relative to the exact 5w/7:
\* 1 when the double result is the next double above the rounding of
\* 5w/7 (-1 for negative w), 0 when they are the same double.  With
\* 5|w|/7 = m * 2^e and f the fraction of 5|w|/7 in units of its ulp
\* (f = r/7), the result moves up iff r < 4 and 4m >= 7 - 2r.
Bump(w, current_seats) ==
  IF current_seats # 0 \/ w = 0 THEN 0
  ELSE LET a == Abs(w)
           e == IF 5 * a < 7 THEN -1 ELSE ExpUp(5 * a, 7, 0)
           r == (5 * a * Pow2((52 - e) % 3)) % 7
           up == r < 4 /\ 8 * 5 * a >= (7 - 2 * r) * 7 * Pow2(e + 1)
       IN IF ~up THEN 0 ELSE IF w > 0 THEN 1 ELSE -1

\* quotients[p] > quotients[q] for vote_count / divisor as doubles
QuotLT(w1, n1, w2, n2) ==
  LET a == w1 * Divisor5(n2)
      b == w2 * Divisor5(n1)
  IN IF a # b THEN a < b ELSE Bump(w1, n1) < Bump(w2, n2)

QuotGT(w1, n1, w2, n2) ==
  LET a == w1 * Divisor5(n2)
      b == w2 * Divisor5(n1)
  IN IF a # b THEN a > b ELSE Bump(w1, n1) > Bump(w2, n2)

QuotGE(w1, n1, w2, n2) == ~QuotGT(w2, n2, w1, n1)

\* max(quotients, key=quotients.get): scan the keys in order, keep the
\* current best and replace it only by a strictly greater quotient
RECURSIVE MaxScanLast(_, _, _, _, _)
MaxScanLast(w, s, keys, k, best) ==
  IF k > Len(keys) THEN best
  ELSE MaxScanLast(w, s, keys, k + 1,
         IF QuotGE(w[keys[k]], s[keys[k]], w[best], s[best])
         THEN keys[k] ELSE best)

RECURSIVE MaxScan(_, _, _, _, _)
MaxScan(w, s, keys, k, best) ==
  IF k > Len(keys) THEN best
  ELSE MaxScan(w, s, keys, k + 1,
         IF QuotGT(w[keys[k]], s[keys[k]], w[best], s[best])
         THEN keys[k] ELSE best)

RECURSIVE MinScan(_, _, _, _, _)
MinScan(w, s, keys, k, best) ==
  IF k > Len(keys) THEN best
  ELSE MinScan(w, s, keys, k + 1,
         IF QuotLT(w[keys[k]], s[keys[k]], w[best], s[best])
         THEN keys[k] ELSE best)

WinnerMin(w, s, keys) == MinScan(w, s, keys, 2, keys[1])

Winner(w, s, keys) == MaxScan(w, s, keys, 2, keys[1])

\* for _ in range(total_seats): is there another iteration after `done`
LoopContinuesShort(done, n) == done + 1 < n

LoopContinues(done, n) == done < n

\* all_seats = {party: 0 for party in votes}; all_seats.update(seats)
AllSeats(v, s) ==
  [p \in DOMAIN v |-> IF p \in DOMAIN s THEN s[p] ELSE 0]

\* the loop of lines 41-57 run to its end from seat counts s
RECURSIVE RunLoop(_, _, _, _, _)
RunLoop(v, keys, s, done, n) ==
  IF ~LoopContinues(done, n) THEN s
  ELSE LET win == Winner(v, s, keys)
       IN RunLoop(v, keys, [s EXCEPT ![win] = @ + 1], done + 1, n)

\* modified_sainte_lague_allocation(v, n) for sum(v) # 0
Allocate(v, n) ==
  LET keys == QualifiedKeys(v)
  IN IF keys = <<>> THEN [p \in DOMAIN v |-> 0]
     ELSE AllSeats(v, RunLoop(v, keys, [p \in Range(keys) |-> 0], 0, n))

\* ------------------------------------------------- the allocator's steps
\* lines 26-38: threshold filter, early return, seat initialisation
Filter ==
  /\ pc = "filter"
  /\ IF votes # <<>> /\ TotalValidVotes(votes) = 0
     THEN \* vote_count / 0 raises ZeroDivisionError
          /\ pc' = "ZeroDivisionError"
          /\ UNCHANGED allocVars
     ELSE LET keys == QualifiedKeys(votes)
          IN /\ qualified_parties' = keys
             /\ IF keys = <<>>
                THEN /\ all_seats' = [p \in DOMAIN votes |-> 0]
                     /\ pc' = "returned"
                     /\ UNCHANGED <<seats, i, winner>>
                ELSE /\ seats' = [p \in Range(keys) |-> 0]
                     /\ i' = 0
                     /\ pc' = "loop"
                     /\ UNCHANGED <<winner, all_seats>>
  /\ UNCHANGED <<votes, total_seats>>
  /\ UNCHANGED uiVars

\* lines 41-57: one iteration of the allocation loop
AwardSeat ==
  /\ pc = "loop"
  /\ LoopContinues(i, total_seats)
  /\ LET win == Winner(votes, seats, qualified_parties)
     IN /\ winner' = win
        /\ seats' = [seats EXCEPT ![win] = @ + 1]
  /\ i' = i + 1
  /\ UNCHANGED <<votes, total_seats, pc, qualified_parties, all_seats>>
  /\ UNCHANGED uiVars

\* lines 59-63: result assembly
Assemble ==
  /\ pc = "loop"
  /\ ~LoopContinues(i, total_seats)
  /\ all_seats' = AllSeats(votes, seats)
  /\ pc' = "returned"
  /\ UNCHANGED <<votes, total_seats, qualified_parties, seats, i, winner>>
  /\ UNCHANGED uiVars

\* every sequence over S of length 0..n
SeqsUpTo(S, n) == UNION {[1..k -> S] : k \in 0..n}

UIIdle ==
  /\ party_percentages = <<>>
  /\ ui_qualified = <<>>
  /\ seats_progress = EmptyDict
  /\ seat_num = 0
  /\ allocation_steps = <<>>

AllocIdle ==
  /\ qualified_parties = <<>>
  /\ seats = EmptyDict
  /\ i = 0
  /\ winner = NoParty
  /\ all_seats = EmptyDict

\* a call modified_sainte_lague_allocation(votes, total_seats)
Init ==
  /\ \/ /\ votes \in SeqsUpTo(Weights, MaxParties)
        /\ total_seats \in -1..MaxSeats
     \/ /\ votes = <<60, 25, 15>>
        /\ total_seats = 10
  /\ pc = "filter"
  /\ AllocIdle
  /\ UIIdle

Next == Filter \/ AwardSeat \/ Assemble

Spec == Init /\ [][Next]_vars

\* ------------------------------------------------------ the dashboard run
\* int(percentage * base_votes / 100): truncation toward zero of the double
\* product; exact for the whole-number percentages of Pcts
ToVotes(pct) == (pct * base_votes) \div 100

\* f"{quotients[winner]:.2f}" as a number of hundredths (round to nearest;
\* 100 * w / divisor is never halfway between two hundredths)
QuotientHundredths(w, current_seats) ==
  (2 * 100 * 5 * w + Divisor5(current_seats))
    \div (2 * Divisor5(current_seats))

\* pct >= simulator.threshold * 100
TraceQualifies(pct) == ThresholdDen * pct >= ThresholdNum * 100

RECURSIVE TraceKeys(_, _)
TraceKeys(pp, k) ==
  IF k > Len(pp) THEN <<>>
  ELSE (IF TraceQualifies(pp[k]) THEN <<k>> ELSE <<>>) \o TraceKeys(pp, k + 1)

\* lines 286-291 and 76-83: the button handler up to the allocator call
RunSimulation ==
  /\ pc = "run"
  /\ IF party_percentages = <<>>
     THEN /\ pc' = "no_parties"
          /\ UNCHANGED votes
     ELSE /\ votes' = [k \in DOMAIN party_percentages |->
                         ToVotes(party_percentages[k])]
          /\ pc' = "filter"
  /\ UNCHANGED total_seats
  /\ UNCHANGED allocVars
  /\ UNCHANGED uiVars

\* lines 304-312: the display's own qualification and counters
TraceInit ==
  /\ pc = "returned"
  /\ ui_qualified' = TraceKeys(party_percentages, 1)
  /\ seats_progress' = [p \in Range(TraceKeys(party_percentages, 1)) |-> 0]
  /\ allocation_steps' = <<>>
  /\ seat_num' = 1
  /\ pc' = "trace"
  /\ UNCHANGED <<votes, total_seats, party_percentages>>
  /\ UNCHANGED allocVars

\* lines 314-334: one pass of the display loop
TraceStep ==
  /\ pc = "trace"
  /\ seat_num <= total_seats
  /\ IF ui_qualified # <<>>
     THEN LET win == Winner(party_percentages, seats_progress, ui_qualified)
          IN /\ seats_progress' = [seats_progress EXCEPT ![win] = @ + 1]
             /\ allocation_steps' = Append(allocation_steps,
                  [Seat |-> seat_num,
                   Winner |-> win,
                   Quotient |-> QuotientHundredths(party_percentages[win],
                                                   seats_progress[win]),
                   NewTotal |-> seats_progress[win] + 1])
     ELSE UNCHANGED <<seats_progress, allocation_steps>>
  /\ seat_num' = seat_num + 1
  /\ UNCHANGED <<votes, total_seats, pc, party_percentages, ui_qualified>>
  /\ UNCHANGED allocVars

\* lines 336-338: the table is shown when it has rows
TraceShow ==
  /\ pc = "trace"
  /\ seat_num > total_seats
  /\ pc' = "shown"
  /\ UNCHANGED <<votes, total_seats, party_percentages, ui_qualified,
                 seats_progress, seat_num, allocation_steps>>
  /\ UNCHANGED allocVars

\* the "Run Simulation" button pressed on some sidebar input
InitUI ==
  /\ party_percentages \in SeqsUpTo(Pcts, MaxParties)
  /\ total_seats \in MinUISeats..MaxUISeats
  /\ votes = <<>>
  /\ pc = "run"
  /\ AllocIdle
  /\ ui_qualified = <<>>
  /\ seats_progress = EmptyDict
  /\ seat_num = 0
  /\ allocation_steps = <<>>

NextUI ==
  \/ RunSimulation
  \/ Filter
  \/ AwardSeat
  \/ Assemble
  \/ TraceInit
  \/ TraceStep
  \/ TraceShow

SpecUI == InitUI /\ [][NextUI]_vars

\* ---------------------------------------------------------------- claims
Parties == DOMAIN votes

ValidInput ==
  /\ votes # <<>>
  /\ \A p \in Parties : votes[p] >= 0
  /\ total_seats >= 0

Terminated == pc \in {"returned", "ZeroDivisionError", "InvalidInput"}

\* share of party p in the summed weights, against 4/100, in exact integers
ShareAtLeast4Pct(p) ==
  /\ TotalValidVotes(votes) > 0
  /\ 100 * votes[p] >= 4 * TotalValidVotes(votes)

\* C1: a call on a valid input in which at least one party reaches the
\* threshold returns a mapping whose seat counts sum to total_seats.
C1_Conservation ==
  (Terminated /\ ValidInput /\ \E p \in Parties : ShareAtLeast4Pct(p))
    => (pc = "returned" /\ SumValues(all_seats) = total_seats)

C1_Witness ==
  /\ pc = "returned"
  /\ ValidInput
  /\ total_seats >= 2
  /\ \E p \in Parties : ShareAtLeast4Pct(p)
  /\ \E p \in Parties : ~ShareAtLeast4Pct(p) /\ votes[p] > 0
  /\ Cardinality({p \in Parties : all_seats[p] > 0}) >= 2
  /\ SumValues(all_seats) = total_seats

\* C2: every call on a valid input (non-empty votes, weights >= 0,
\* total_seats >= 0) returns a mapping whose key set is the input's key set.
C2_KeyCoverage ==
  (Terminated /\ ValidInput)
    => (pc = "returned" /\ DOMAIN all_seats = DOMAIN votes)

\* C3: a call on non-empty votes whose weights are all 0 does not fail and
\* returns every input party mapped to 0 seats.
C3_AllZeroVotes ==
  (/\ Terminated
   /\ votes # <<>>
   /\ \A p \in Parties : votes[p] = 0
   /\ total_seats >= 0)
    => (pc = "returned" /\ all_seats = [p \in Parties |-> 0])

\* C4: a call ends in InvalidInput, with no seat awarded and no mapping
\* returned, exactly when votes is empty, a weight is negative or
\* total_seats < 0; every other call returns a result.
C4_InvalidInput ==
  Terminated =>
    IF ValidInput
    THEN pc = "returned"
    ELSE pc = "InvalidInput" /\ i = 0 /\ all_seats = EmptyDict

C6_Monotonicity ==
  (pc = "returned" /\ ValidInput) =>
    \A p \in Parties :
      ShareAtLeast4Pct(p) =>
        \A w \in Weights \cup {votes[p] + 1} :
          w > votes[p] =>
            Allocate([votes EXCEPT ![p] = w], total_seats)[p] >= all_seats[p]

C6_Witness ==
  /\ pc = "returned"
  /\ ValidInput
  /\ \E p \in Parties :
       /\ ShareAtLeast4Pct(p)
       /\ \E q \in Parties : q # p /\ all_seats[q] > 0
       /\ \E w \in Weights :
            /\ w > votes[p]
            /\ Allocate([votes EXCEPT ![p] = w], total_seats)[p]
                 > all_seats[p]

\* exact quotient weight / divisor of p against q: 5w/7 or w/(2n+1)
ExactQuotGE(p, q) ==
  votes[p] * Divisor5(seats[q]) >= votes[q] * Divisor5(seats[p])

\* C8: each iteration is one of the first total_seats, gives the seat to a
\* qualified party whose quotient (divisor 1.4, then 2n+1) is not below any
\* other qualified party's, raises exactly that party's count by 1, and
\* among parties whose computed quotients are equal picks the first in the
\* input order.
C8_AwardStep ==
  (pc = "loop" /\ i' = i + 1) =>
    /\ i < total_seats
    /\ winner' \in Range(qualified_parties)
    /\ \A q \in Range(qualified_parties) : ExactQuotGE(winner', q)
    /\ \A q \in Range(qualified_parties) :
         q < winner' =>
           QuotGT(votes[winner'], seats[winner'], votes[q], seats[q])
    /\ seats' = [seats EXCEPT ![winner'] = seats[winner'] + 1]
    /\ \A q \in DOMAIN seats : q # winner' => seats'[q] = seats[q]

IsScenario == votes = <<60, 25, 15>> /\ total_seats = 10

\* C10: in a returned mapping a party with more votes never has fewer
\* seats; votes {A: 60, B: 25, C: 15} with 10 seats give A the first two
\* seats and 10 seats in all.
C10_OrderPreserved ==
  /\ (pc = "returned" /\ ValidInput) =>
       \A p, q \in Parties :
         votes[p] > votes[q] => all_seats[p] >= all_seats[q]
  /\ (IsScenario /\ pc = "loop" /\ i \in {1, 2}) =>
       winner = 1 /\ seats[1] = i
  /\ (IsScenario /\ Terminated) =>
       pc = "returned" /\ SumValues(all_seats) = 10

C10_Witness ==
  /\ IsScenario
  /\ pc = "returned"
  /\ all_seats = <<6, 3, 1>>

\* number of trace steps won by party p
StepsWon(p) ==
  Cardinality({k \in DOMAIN allocation_steps : allocation_steps[k].Winner = p})

\* C7: the displayed trace has total_seats steps numbered 1..total_seats
\* when a party qualifies in the allocation and is empty otherwise.
C7_TraceLength ==
  pc = "shown" =>
    IF qualified_parties # <<>>
    THEN /\ Len(allocation_steps) = total_seats
         /\ \A k \in DOMAIN allocation_steps : allocation_steps[k].Seat = k
    ELSE allocation_steps = <<>>

\* C9: for each party the number of trace steps it wins equals its seat
\* count in the mapping returned for the same input.
C9_TraceMatchesResult ==
  pc = "shown" =>
    \A p \in DOMAIN party_percentages : StepsWon(p) = all_seats[p]

====
